---------------------------- MODULE Spec2Model ----------------------------
(***************************************************************************)
(* Model of dashboards.py: the memoized loader load_data, the month filter *)
(* of sidebar_filters, the five chart helpers and main.                    *)
(*                                                                         *)
(* Texts that the program parses or formats (dates, decimals, month keys)  *)
(* are sequences of one-character strings, so that parsing and formatting  *)
(* are computed, not assumed.  Amounts are exact decimals kept in          *)
(* hundredths.                                                             *)
(***************************************************************************)
EXTENDS Integers, Sequences, FiniteSets, TLC

VARIABLES
    fs,           \* the files on disk: path -> "missing" marker or rows of text
    cache,        \* the single slot of lru_cache(maxsize=1) around load_data
    hits,         \* the hit counter of lru_cache (load_data.cache_info().hits)
    reads,        \* history: how many times pd.read_csv was called per path
    created,      \* history: how many tables load_data built per path
    evicted,      \* history: how many times a path's table was evicted
    lastOk,       \* history: path and table of the most recent successful call
    arg,          \* path given to the most recent call of load_data
    ret,          \* outcome of the most recent call of load_data
    pc,           \* position of main
    month,        \* value returned by st.sidebar.selectbox
    options,      \* options given to st.sidebar.selectbox
    df_filtered,  \* rows returned by sidebar_filters
    ui,           \* Streamlit calls executed by main so far, in order
    figs          \* data handed to the five charts

vars == <<fs, cache, hits, reads, created, evicted, lastOk, arg, ret, pc, month,
          options, df_filtered, ui, figs>>

-----------------------------------------------------------------------------
(* Bounds of the model *)

MaxRows == 3
MaxReads == 2
MaxHits == 1

-----------------------------------------------------------------------------
(* Text helpers *)

DigitChars == <<"0", "1", "2", "3", "4", "5", "6", "7", "8", "9">>

IsDigit(c) == \E i \in 1..10 : DigitChars[i] = c

DigitVal(c) == (CHOOSE i \in 1..10 : DigitChars[i] = c) - 1

AllDigits(s) == Len(s) > 0 /\ \A i \in 1..Len(s) : IsDigit(s[i])

RECURSIVE ParseInt(_)
ParseInt(s) ==
    IF Len(s) = 0 THEN 0
    ELSE 10 * ParseInt(SubSeq(s, 1, Len(s) - 1)) + DigitVal(s[Len(s)])

\* The fields of text s separated by the character sep.
RECURSIVE Split(_, _)
Split(s, sep) ==
    IF \A i \in 1..Len(s) : s[i] # sep THEN <<s>>
    ELSE LET k == CHOOSE i \in 1..Len(s) :
                    s[i] = sep /\ \A j \in 1..(i - 1) : s[j] # sep
         IN  <<SubSeq(s, 1, k - 1)>> \o Split(SubSeq(s, k + 1, Len(s)), sep)

Pad(n, width) ==
    [i \in 1..width |-> DigitChars[((n \div (10 ^ (width - i))) % 10) + 1]]

-----------------------------------------------------------------------------
(* The input files.  A line is one row of the semicolon-separated file; the  *)
(* Date, Total and Rating fields are the texts found in the file.            *)

Txt_0105 == <<"0", "1", "/", "0", "5", "/", "2", "0", "1", "9">>
Txt_0112 == <<"0", "1", "/", "1", "2", "/", "2", "0", "1", "9">>
Txt_0201 == <<"0", "2", "/", "0", "1", "/", "2", "0", "1", "9">>
Txt_1340 == <<"1", "3", "/", "4", "0", "/", "2", "0", "1", "9">>

Line(date, city, product, payment, total, rating) ==
    [Date |-> date, City |-> city, Product_line |-> product,
     Payment |-> payment, Total |-> total, Rating |-> rating]

LinePool ==
    { Line(Txt_0105, "CityA", "Food", "Cash",
           <<"1", "0", "0", ",", "5", "0">>, <<"9", ",", "0">>),
      Line(Txt_0112, "CityA", "Health", "Card",
           <<"5", "0", ",", "2", "5">>, <<"7", ",", "5">>),
      Line(Txt_0201, "CityB", "Food", "Cash",
           <<"7", "5", ",", "0", "0">>, <<"6">>),
      Line(Txt_0105, "CityB", "Food", "Card",
           <<"2", "0", ",", "0", "0">>, <<"8", ",", "5">>),
      Line(Txt_1340, "CityA", "Food", "Cash",
           <<"1", "0", ",", "0", "0">>, <<"5">>),
      Line(Txt_0112, "CityB", "Health", "Cash",
           <<"a", "b", "c">>, <<"n", "/", "a">>) }

SeqsUpTo(S, n) == UNION {[1..k -> S] : k \in 0..n}

MissingFile == [exists |-> FALSE, lines |-> <<>>]

Files ==
    {MissingFile} \cup {[exists |-> TRUE, lines |-> l] : l \in SeqsUpTo(LinePool, MaxRows)}

\* The file found under every path other than DATA_PATH: three rows, two months.
OtherFile ==
    [exists |-> TRUE,
     lines |-> << Line(Txt_0105, "CityA", "Food", "Cash",
                       <<"1", "0", "0", ",", "5", "0">>, <<"9", ",", "0">>),
                  Line(Txt_0112, "CityA", "Health", "Card",
                       <<"5", "0", ",", "2", "5">>, <<"7", ",", "5">>),
                  Line(Txt_0201, "CityB", "Food", "Cash",
                       <<"7", "5", ",", "0", "0">>, <<"6">>) >>]

DATA_PATH == "data/supermarket_sales.csv"

Paths == {DATA_PATH, "other.csv"}

-----------------------------------------------------------------------------
(* pd.read_csv(path, sep=";", decimal=",") *)

\* A text the parser reads as a number: digits, optionally a comma and digits.
IsDecimal(t) ==
    LET parts == Split(t, ",")
    IN  /\ Len(parts) \in {1, 2}
        /\ \A i \in 1..Len(parts) : AllDigits(parts[i])

\* Its value in hundredths (fractions of at most two digits are exact).
ParseDecimal(t) ==
    LET parts == Split(t, ",")
        frac  == IF Len(parts) = 2 THEN parts[2] ELSE <<>>
    IN  100 * ParseInt(parts[1])
          + (IF Len(frac) = 0 THEN 0
             ELSE IF Len(frac) = 1 THEN 10 * ParseInt(frac)
             ELSE ParseInt(SubSeq(frac, 1, 2)))

\* A column is numeric when every cell parses; otherwise it stays a column of
\* the original texts (dtype object).  A column of no cells is object too.
ColumnIsNumeric(lines, col) ==
    Len(lines) > 0 /\ \A i \in 1..Len(lines) : IsDecimal(lines[i][col])

Cell(lines, i, col) ==
    IF ColumnIsNumeric(lines, col)
    THEN [num |-> TRUE, val |-> ParseDecimal(lines[i][col]), txt |-> <<>>]
    ELSE [num |-> FALSE, val |-> 0, txt |-> lines[i][col]]

read_csv(file) ==
    [i \in 1..Len(file.lines) |->
        [idx |-> i - 1,
         Date |-> file.lines[i].Date,
         City |-> file.lines[i].City,
         Product_line |-> file.lines[i].Product_line,
         Payment |-> file.lines[i].Payment,
         Total |-> Cell(file.lines, i, "Total"),
         Rating |-> Cell(file.lines, i, "Rating")]]

-----------------------------------------------------------------------------
(* pd.to_datetime(df["Date"], format="%m/%d/%Y") *)

IsLeap(y) == (y % 4 = 0 /\ y % 100 # 0) \/ y % 400 = 0

DaysInMonth(y, m) ==
    IF m \in {4, 6, 9, 11} THEN 30
    ELSE IF m = 2 THEN (IF IsLeap(y) THEN 29 ELSE 28)
    ELSE 31

\* Variant: the text is read day first ("%d/%m/%Y").
DateFieldsDayFirst(t) ==
    LET parts == Split(t, "/")
    IN  IF /\ Len(parts) = 3
           /\ \A i \in 1..3 : AllDigits(parts[i])
           /\ Len(parts[1]) <= 2 /\ Len(parts[2]) <= 2 /\ Len(parts[3]) = 4
        THEN [ok |-> TRUE, month |-> ParseInt(parts[2]),
              day |-> ParseInt(parts[1]), year |-> ParseInt(parts[3])]
        ELSE [ok |-> FALSE, month |-> 0, day |-> 0, year |-> 0]

\* The three fields of the text in the order the format gives them.
DateFields(t) ==
    LET parts == Split(t, "/")
    IN  IF /\ Len(parts) = 3
           /\ \A i \in 1..3 : AllDigits(parts[i])
           /\ Len(parts[1]) <= 2 /\ Len(parts[2]) <= 2 /\ Len(parts[3]) = 4
        THEN [ok |-> TRUE, month |-> ParseInt(parts[1]),
              day |-> ParseInt(parts[2]), year |-> ParseInt(parts[3])]
        ELSE [ok |-> FALSE, month |-> 0, day |-> 0, year |-> 0]

DateIsValid(t) ==
    LET f == DateFields(t)
    IN  /\ f.ok
        /\ f.month \in 1..12
        /\ f.day \in 1..DaysInMonth(f.year, f.month)

to_datetime(t) ==
    LET f == DateFields(t)
    IN  [year |-> f.year, month |-> f.month, day |-> f.day]

DateKey(d) == d.year * 10000 + d.month * 100 + d.day

-----------------------------------------------------------------------------
(* df.sort_values("Date"): the default kind is "quicksort", which pandas     *)
(* documents as not stable, so rows of equal date come in any order.         *)

Perms(n) == {f \in [1..n -> 1..n] : \A i, j \in 1..n : i # j => f[i] # f[j]}

\* Variant: the rows are left in file order.
sort_values_skipped(rows) == {rows}

sort_values(rows) ==
    LET n == Len(rows)
    IN  { [i \in 1..n |-> rows[f[i]]] :
            f \in { g \in Perms(n) :
                      \A i \in 1..(n - 1) :
                         DateKey(rows[g[i]].Date) <= DateKey(rows[g[i + 1]].Date) } }

-----------------------------------------------------------------------------
(* df["Date"].dt.to_period("M").astype(str) *)

to_period_M(d) == [year |-> d.year, month |-> d.month]

PeriodStr(p) == Pad(p.year, 4) \o <<"-">> \o Pad(p.month, 2)

MonthOf(d) == PeriodStr(to_period_M(d))

-----------------------------------------------------------------------------
(* load_data, lines 42-48: the outcomes of one execution of the body on the  *)
(* file found at the path.  A table carries the path it was read from and    *)
(* the number of the read that built it: together they identify the object.  *)

NoTable == [src |-> "", gen |-> 0, rows |-> <<>>]

Raised(kind) == [kind |-> kind, table |-> NoTable]

WithDates(rows) ==
    [i \in 1..Len(rows) |->
        [idx |-> rows[i].idx, Date |-> to_datetime(rows[i].Date),
         City |-> rows[i].City, Product_line |-> rows[i].Product_line,
         Payment |-> rows[i].Payment, Total |-> rows[i].Total,
         Rating |-> rows[i].Rating]]

WithMonth(rows) ==
    [i \in 1..Len(rows) |->
        [idx |-> rows[i].idx, Date |-> rows[i].Date, City |-> rows[i].City,
         Product_line |-> rows[i].Product_line, Payment |-> rows[i].Payment,
         Total |-> rows[i].Total, Rating |-> rows[i].Rating,
         Month |-> MonthOf(rows[i].Date)]]

load_data_body(path, gen, file) ==
    IF ~file.exists THEN {Raised("FileNotFoundError")}
    ELSE LET df == read_csv(file)
         IN  IF \E i \in 1..Len(df) : ~DateIsValid(df[i].Date)
             THEN {Raised("ValueError")}
             ELSE { [kind |-> "ok",
                     table |-> [src |-> path, gen |-> gen, rows |-> WithMonth(s)]] :
                       s \in sort_values(WithDates(df)) }

-----------------------------------------------------------------------------
(* @lru_cache(maxsize=1): one slot keyed by the path argument.  A hit        *)
(* returns the stored object without running the body; a miss runs the body, *)
(* and only a body that returns stores its result, replacing the slot.  An   *)
(* exception leaves the slot as it was.                                      *)

EmptySlot == [full |-> FALSE, key |-> "", value |-> NoTable]

\* Variant: the slot is matched without looking at the path.
CacheHitAnyPath(c, path) == c.full

CacheHit(c, path) == c.full /\ c.key = path

\* Variant: the result of the body is not kept.
CacheStoreNothing(c, path, table) == c

CacheStore(c, path, table) == [full |-> TRUE, key |-> path, value |-> table]

Bump(f, path) == [f EXCEPT ![path] = @ + 1]

load_data(path) ==
    /\ arg' = path
    /\ IF CacheHit(cache, path)
       THEN /\ hits < MaxHits
            /\ hits' = hits + 1
            /\ ret' = [kind |-> "ok", table |-> cache.value]
            /\ lastOk' = [full |-> TRUE, key |-> path, value |-> cache.value]
            /\ UNCHANGED <<cache, reads, created, evicted>>
       ELSE /\ reads[path] < MaxReads
            /\ reads' = Bump(reads, path)
            /\ hits' = hits
            /\ \E out \in load_data_body(path, reads[path] + 1, fs[path]) :
                 /\ ret' = out
                 /\ IF out.kind = "ok"
                    THEN /\ cache' = CacheStore(cache, path, out.table)
                         /\ created' = Bump(created, path)
                         /\ evicted' = IF cache.full THEN Bump(evicted, cache.key)
                                       ELSE evicted
                         /\ lastOk' = [full |-> TRUE, key |-> path, value |-> out.table]
                    ELSE UNCHANGED <<cache, created, evicted, lastOk>>

-----------------------------------------------------------------------------
(* sidebar_filters *)

NoneMonth == <<"None">>

RECURSIVE unique(_)
unique(s) ==
    IF Len(s) = 0 THEN <<>>
    ELSE LET rest == unique(SubSeq(s, 1, Len(s) - 1))
             x    == s[Len(s)]
         IN  IF \E i \in 1..Len(rest) : rest[i] = x THEN rest ELSE Append(rest, x)

MonthColumn(rows) == [i \in 1..Len(rows) |-> rows[i].Month]

\* options=df["Month"].unique()
MonthOptions(rows) == unique(MonthColumn(rows))

Range(s) == {s[i] : i \in 1..Len(s)}

\* What st.sidebar.selectbox can return: an option, or None when there is none.
Selectable(rows) ==
    IF Len(MonthOptions(rows)) = 0 THEN {NoneMonth} ELSE Range(MonthOptions(rows))

\* Variant: the key is matched on its year only.
RowHasYearOfMonth(r, m) == Len(m) = 7 /\ SubSeq(r.Month, 1, 4) = SubSeq(m, 1, 4)

RowHasMonth(r, m) == r.Month = m

\* df[df["Month"] == month]
MonthFilter(rows, m) == SelectSeq(rows, LAMBDA r : RowHasMonth(r, m))

-----------------------------------------------------------------------------
(* groupby(keys, as_index=False)[col].sum() / .mean(): one output row per    *)
(* key combination present, in sorted key order.                             *)

Collation == <<"Card", "Cash", "CityA", "CityB", "Food", "Health">>

Rank(x) == CHOOSE i \in 1..Len(Collation) : Collation[i] = x

RECURSIVE KeyLess(_, _)
KeyLess(a, b) ==
    IF Len(a) = 0 \/ Len(b) = 0 THEN Len(a) < Len(b)
    ELSE IF a[1] # b[1] THEN Rank(a[1]) < Rank(b[1])
    ELSE KeyLess(Tail(a), Tail(b))

KeyOf(r, cols) == [c \in 1..Len(cols) |-> r[cols[c]]]

GroupKeySet(rows, cols) == {KeyOf(rows[i], cols) : i \in 1..Len(rows)}

RECURSIVE SortKeys(_)
SortKeys(S) ==
    IF S = {} THEN <<>>
    ELSE LET least == CHOOSE k \in S : \A o \in S \ {k} : KeyLess(k, o)
         IN  <<least>> \o SortKeys(S \ {least})

GroupKeys(rows, cols) == SortKeys(GroupKeySet(rows, cols))

GroupRows(rows, cols, k) == SelectSeq(rows, LAMBDA r : KeyOf(r, cols) = k)

\* Sum of a column: numbers add, texts (an object column) concatenate.
RECURSIVE SumCells(_, _)
SumCells(rows, col) ==
    IF Len(rows) = 0 THEN [num |-> TRUE, val |-> 0, txt |-> <<>>]
    ELSE LET acc == SumCells(SubSeq(rows, 1, Len(rows) - 1), col)
             c   == rows[Len(rows)][col]
         IN  IF acc.num /\ c.num
             THEN [num |-> TRUE, val |-> acc.val + c.val, txt |-> <<>>]
             ELSE [num |-> FALSE, val |-> 0, txt |-> acc.txt \o c.txt]

groupby_sum(rows, cols, col) ==
    LET keys == GroupKeys(rows, cols)
    IN  [i \in 1..Len(keys) |->
            [key |-> keys[i], value |-> SumCells(GroupRows(rows, cols, keys[i]), col)]]

\* The mean of a group is its sum over its count, kept as that fraction.
groupby_mean(rows, cols, col) ==
    LET keys == GroupKeys(rows, cols)
    IN  [i \in 1..Len(keys) |->
            [key |-> keys[i],
             sum |-> SumCells(GroupRows(rows, cols, keys[i]), col).val,
             count |-> Len(GroupRows(rows, cols, keys[i]))]]

\* Variant: .mean() refuses every column without a numeric cell, an empty one too.
MeanRaisesWithoutNumbers(rows, col) == \A i \in 1..Len(rows) : ~rows[i][col].num

\* .mean() raises TypeError on a group of an object column.
MeanRaises(rows, col) == \E i \in 1..Len(rows) : ~rows[i][col].num

-----------------------------------------------------------------------------
(* The five chart helpers: the data each hands to plotly.                    *)

plot_revenue_by_day(df) ==
    [i \in 1..Len(df) |-> [x |-> df[i].Date, y |-> df[i].Total, color |-> df[i].City]]

plot_revenue_by_product(df) == groupby_sum(df, <<"Product_line", "City">>, "Total")

plot_revenue_by_city(df) == groupby_sum(df, <<"City">>, "Total")

plot_revenue_by_payment(df) ==
    [i \in 1..Len(df) |-> [names |-> df[i].Payment, values |-> df[i].Total]]

plot_rating_by_city(df) == groupby_mean(df, <<"City">>, "Rating")

NoFigs ==
    [by_day |-> <<>>, by_product |-> <<>>, by_city |-> <<>>, by_payment |-> <<>>,
     rating_by_city |-> <<>>]

-----------------------------------------------------------------------------
(* The state after the module is imported: st.set_page_config has run, the   *)
(* cache is empty.  The file under DATA_PATH is any file of the bounded set. *)

Init ==
    /\ fs \in {f \in [Paths -> Files \cup {OtherFile}] :
                 \A p \in Paths \ {DATA_PATH} : f[p] = OtherFile}
    /\ cache = EmptySlot
    /\ hits = 0
    /\ reads = [p \in Paths |-> 0]
    /\ created = [p \in Paths |-> 0]
    /\ evicted = [p \in Paths |-> 0]
    /\ lastOk = EmptySlot
    /\ arg = ""
    /\ ret = Raised("none")
    /\ pc = "idle"
    /\ month = NoneMonth
    /\ options = <<>>
    /\ df_filtered = <<>>
    /\ ui = <<"set_page_config">>
    /\ figs = NoFigs

mainVars == <<pc, month, options, df_filtered, ui, figs>>

cacheVars == <<cache, hits, reads, created, evicted, lastOk, arg, ret>>

\* A caller other than main (a test, an importing module) calls load_data.
Call(path) ==
    /\ pc = "idle"
    /\ load_data(path)
    /\ UNCHANGED <<fs, mainVars>>

\* main, line 138
MainTitle ==
    /\ pc = "idle"
    /\ ui' = Append(ui, "title")
    /\ pc' = "titled"
    /\ UNCHANGED <<fs, cacheVars, month, options, df_filtered, figs>>

\* main, line 140: an exception of load_data leaves main
MainLoad ==
    /\ pc = "titled"
    /\ load_data(DATA_PATH)
    /\ pc' = IF ret'.kind = "ok" THEN "loaded" ELSE "load_error"
    /\ UNCHANGED <<fs, month, options, df_filtered, ui, figs>>

\* main, line 141: sidebar_filters(df)
MainFilter(m) ==
    /\ pc = "loaded"
    /\ options' = MonthOptions(ret.table.rows)
    /\ m \in Selectable(ret.table.rows)
    /\ month' = m
    /\ df_filtered' = MonthFilter(ret.table.rows, m)
    /\ ui' = ui \o <<"sidebar.header", "sidebar.selectbox">>
    /\ pc' = "filtered"
    /\ UNCHANGED <<fs, cacheVars, figs>>

\* main, lines 144-158
MainRender ==
    /\ pc = "filtered"
    /\ IF MeanRaises(df_filtered, "Rating")
       THEN /\ figs' = [by_day |-> plot_revenue_by_day(df_filtered),
                        by_product |-> plot_revenue_by_product(df_filtered),
                        by_city |-> plot_revenue_by_city(df_filtered),
                        by_payment |-> plot_revenue_by_payment(df_filtered),
                        rating_by_city |-> <<>>]
            /\ ui' = ui \o <<"columns", "columns", "plotly_chart", "plotly_chart",
                             "plotly_chart", "plotly_chart">>
            /\ pc' = "plot_error"
       ELSE /\ figs' = [by_day |-> plot_revenue_by_day(df_filtered),
                        by_product |-> plot_revenue_by_product(df_filtered),
                        by_city |-> plot_revenue_by_city(df_filtered),
                        by_payment |-> plot_revenue_by_payment(df_filtered),
                        rating_by_city |-> plot_rating_by_city(df_filtered)]
            /\ ui' = ui \o <<"columns", "columns", "plotly_chart", "plotly_chart",
                             "plotly_chart", "plotly_chart", "plotly_chart", "caption">>
            /\ pc' = "done"
    /\ UNCHANGED <<fs, cacheVars, month, options, df_filtered>>

Next ==
    \/ \E path \in Paths : Call(path)
    \/ MainTitle
    \/ MainLoad
    \/ \E m \in Selectable(ret.table.rows) : MainFilter(m)
    \/ MainRender

Spec == Init /\ [][Next]_vars

-----------------------------------------------------------------------------
(* Helpers of the properties below *)

Holds(slot, path) == slot.full /\ slot.key = path

Finished == pc \in {"done", "plot_error"}

Filtered == pc \in {"filtered", "done", "plot_error"}

OutputCalls ==
    {"title", "sidebar.header", "sidebar.selectbox", "columns", "plotly_chart",
     "caption"}

\* The text of the Date field from which row r of a table was read.
SourceDate(t, r) == fs[t.src].lines[r.idx + 1].Date

\* "YYYY-MM" cut out of a zero-padded "MM/DD/YYYY" text.
KeyFromText(txt) == SubSeq(txt, 7, 10) \o <<"-">> \o SubSeq(txt, 1, 2)

\* Position of a "MM/DD/YYYY" text on the month axis.
MonthNumber(txt) == 12 * ParseInt(SubSeq(txt, 7, 10)) + ParseInt(SubSeq(txt, 1, 2))

Count(rows, idx) == Cardinality({i \in 1..Len(rows) : rows[i].idx = idx})

RECURSIVE SumVals(_)
SumVals(cells) ==
    IF Len(cells) = 0 THEN 0 ELSE cells[1].val + SumVals(Tail(cells))

-----------------------------------------------------------------------------
\* C1 (as stated): a call of load_data for a path that an earlier call loaded
\* successfully reads no file and returns a table built by an earlier read of
\* that path; any other call reads the file of its own path and returns no
\* table of another path.
C1_EarlierCallIsReused ==
    [][\A p \in Paths :
         load_data(p) =>
           IF created[p] > 0
           THEN /\ reads' = reads
                /\ ret'.kind = "ok"
                /\ ret'.table.src = p
                /\ ret'.table.gen <= reads[p]
           ELSE /\ reads' = Bump(reads, p)
                /\ (ret'.kind = "ok" => ret'.table.src = p)]_vars

\* C1 (amended): a call of load_data for the path of the most recent successful
\* call reads no file and returns the very table that call returned; any other
\* call reads the file of its own path once and, when it succeeds, returns the
\* table built by that read, never a table of another path.
C1_MostRecentCallIsReused ==
    [][\A p \in Paths :
         load_data(p) =>
           IF Holds(lastOk, p)
           THEN /\ reads' = reads
                /\ ret' = [kind |-> "ok", table |-> lastOk.value]
           ELSE /\ reads' = Bump(reads, p)
                /\ (ret'.kind = "ok" =>
                      ret'.table.src = p /\ ret'.table.gen = reads'[p])]_vars

\* Both paths were loaded and a later call was served from the cache.
C1_Witness ==
    /\ hits > 0
    /\ \A p \in Paths : created[p] > 0

\* C2 (as stated): over the life of the process at most one table is built for
\* each path.
C2_OneTablePerPath == \A p \in Paths : created[p] <= 1

\* C2 (amended): a table is built for a path once, and once more after each
\* time a successful load of another path replaced it in the single cache
\* slot; every build reads the file once.
C2_OneTablePerResidence ==
    \A p \in Paths :
       /\ created[p] = evicted[p] + (IF Holds(lastOk, p) THEN 1 ELSE 0)
       /\ created[p] <= reads[p]

\* The table of DATA_PATH was built, replaced by the other path's, and built again.
C2_Witness == created[DATA_PATH] = 2 /\ evicted[DATA_PATH] = 1

\* C3: load_data returns a table only when the file exists, every Date text is
\* a valid date and every Total and Rating text is a number, and the table it
\* returns holds no unparsed text.
C3_BadFileGivesNoTable ==
    ret.kind = "ok" =>
      LET f == fs[arg]
      IN  /\ f.exists
          /\ \A i \in 1..Len(f.lines) :
                /\ DateIsValid(f.lines[i].Date)
                /\ IsDecimal(f.lines[i].Total)
                /\ IsDecimal(f.lines[i].Rating)
          /\ \A i \in 1..Len(ret.table.rows) :
                ret.table.rows[i].Total.num /\ ret.table.rows[i].Rating.num

\* C4: when load_data fails in main, no output call has been made and no chart
\* data has been computed.
C4_NothingBeforeLoadError ==
    pc = "load_error" =>
      /\ \A i \in 1..Len(ui) : ui[i] \notin OutputCalls
      /\ figs = NoFigs
      /\ df_filtered = <<>>

\* C5: for every table load_data returned and every month key k, the filter
\* returns the records of key k, each once and no other; results for different
\* keys share no record; over the keys of the table every record is returned
\* exactly once.  The rows main keeps are the filter's result for the month
\* selected.
C5_FilterPartitions ==
    ret.kind = "ok" =>
      LET rows == ret.table.rows
          keys == {rows[i].Month : i \in 1..Len(rows)} \cup {NoneMonth}
          F(k) == MonthFilter(rows, k)
      IN  /\ \A k \in keys :
                /\ \A j \in 1..Len(F(k)) : F(k)[j].Month = k
                /\ \A i \in 1..Len(rows) :
                      Count(F(k), rows[i].idx) = (IF rows[i].Month = k THEN 1 ELSE 0)
                /\ \A j \in 1..Len(F(k)) : \E i \in 1..Len(rows) : rows[i] = F(k)[j]
          /\ \A k1, k2 \in keys :
                k1 # k2 => \A j \in 1..Len(F(k1)) : Count(F(k2), F(k1)[j].idx) = 0
          /\ \A i \in 1..Len(rows) :
                Cardinality({k \in keys : Count(F(k), rows[i].idx) = 1}) = 1
          /\ (Filtered /\ arg = DATA_PATH) =>
                /\ \A j \in 1..Len(df_filtered) : df_filtered[j].Month = month
                /\ \A i \in 1..Len(rows) :
                      Count(df_filtered, rows[i].idx)
                        = (IF rows[i].Month = month THEN 1 ELSE 0)

\* A table of two months was filtered to a proper, non-empty part.
C5_Witness ==
    /\ pc = "filtered"
    /\ Len(options) = 2
    /\ Len(df_filtered) > 0
    /\ Len(df_filtered) < Len(ret.table.rows)

\* C6: the table load_data returns is in ascending date order and rows of equal
\* date keep the order they have in the file.
C6_SortedAndStable ==
    ret.kind = "ok" =>
      LET rows == ret.table.rows
      IN  \A i, j \in 1..Len(rows) :
             i < j =>
               /\ DateKey(rows[i].Date) <= DateKey(rows[j].Date)
               /\ (rows[i].Date = rows[j].Date => rows[i].idx < rows[j].idx)

\* C7: on an empty filtered table the five chart helpers all complete and each
\* hands over an empty result; in no case does an output hold a group without
\* records, so no mean is taken over zero rows.
C7_EmptyTableGivesEmptyViews ==
    Finished =>
      /\ df_filtered = <<>> =>
           /\ pc = "done"
           /\ \A v \in DOMAIN figs : figs[v] = <<>>
      /\ \A i \in 1..Len(figs.by_product) :
            \E j \in 1..Len(df_filtered) :
               /\ df_filtered[j].Product_line = figs.by_product[i].key[1]
               /\ df_filtered[j].City = figs.by_product[i].key[2]
      /\ \A i \in 1..Len(figs.by_city) :
            \E j \in 1..Len(df_filtered) : df_filtered[j].City = figs.by_city[i].key[1]
      /\ \A i \in 1..Len(figs.rating_by_city) :
            /\ figs.rating_by_city[i].count > 0
            /\ \E j \in 1..Len(df_filtered) :
                  df_filtered[j].City = figs.rating_by_city[i].key[1]
      /\ Len(figs.by_day) = Len(df_filtered)
      /\ Len(figs.by_payment) = Len(df_filtered)

\* main ran to its end on a table without rows.
C7_Witness ==
    /\ pc = "done"
    /\ df_filtered = <<>>
    /\ Len(SelectSeq(ui, LAMBDA c : c = "plotly_chart")) = 5

\* C8: the options of the month selector are the month keys of the file's
\* dates, each once, in ascending year-month order, whatever the order of the
\* file's rows.
C8_OptionsChronological ==
    Filtered =>
      LET lines == fs[DATA_PATH].lines
          texts == {lines[i].Date : i \in 1..Len(lines)}
      IN  /\ {options[i] : i \in 1..Len(options)} = {KeyFromText(t) : t \in texts}
          /\ \A i, j \in 1..Len(options) :
                i < j =>
                  \A t, u \in texts :
                     (KeyFromText(t) = options[i] /\ KeyFromText(u) = options[j])
                        => MonthNumber(t) < MonthNumber(u)

\* The selector was filled from a file whose first row is of a later month
\* than its second row.
C8_Witness ==
    /\ pc = "filtered"
    /\ Len(options) = 2
    /\ Len(fs[DATA_PATH].lines) >= 2
    /\ MonthNumber(fs[DATA_PATH].lines[1].Date) > MonthNumber(fs[DATA_PATH].lines[2].Date)

\* C9: the revenue-by-city view has one entry per city of the filtered table,
\* its value the sum of that city's Total, so the values add up to the sum of
\* Total over the filtered table.
C9_CityTotalsConserved ==
    Finished =>
      LET v == figs.by_city
          cities == {df_filtered[j].City : j \in 1..Len(df_filtered)}
          totals(c) == [j \in 1..Len(SelectSeq(df_filtered, LAMBDA r : r.City = c)) |->
                          SelectSeq(df_filtered, LAMBDA r : r.City = c)[j].Total]
      IN  /\ {v[i].key[1] : i \in 1..Len(v)} = cities
          /\ Len(v) = Cardinality(cities)
          /\ \A i \in 1..Len(v) :
                /\ v[i].value.num
                /\ v[i].value.val = SumVals(totals(v[i].key[1]))
          /\ SumVals([i \in 1..Len(v) |-> v[i].value])
               = SumVals([j \in 1..Len(df_filtered) |-> df_filtered[j].Total])

=============================================================================
